---- MODULE Spec2Model ----
(***************************************************************************)
(* Model of the guided voice entry pipeline of VoiceTable AI:              *)
(*   - WorkflowWizard (src/unnamed/part_002): the pipeline editor;         *)
(*   - GuidedSession  (src/unnamed/part_003): the step-wise session;       *)
(*   - App            (src/unnamed/part_005): the table the session fills. *)
(* Texts handled character by character (row numbers typed by the user,    *)
(* recognized utterances) are sequences of one-character strings.          *)
(***************************************************************************)
EXTENDS Integers, Sequences, FiniteSets, TLC

(***************************************************************************)
(* Bounds of the model.                                                    *)
(***************************************************************************)
\* longest pipeline the AI suggestion (or the saved table) brings in
MaxGenLen == 4
\* longest pipeline the editor is driven to (guards addNewStep/duplicateSelected)
MaxSteps == 6
\* generateWorkflow requests in flight at once
MaxPending == 2
\* handlers run in one behaviour
MaxOps == 4

(***************************************************************************)
(* Generic helpers on sequences and texts.                                 *)
(***************************************************************************)
Digits == <<"0", "1", "2", "3", "4", "5", "6", "7", "8", "9">>

DigitChars == {Digits[i] : i \in 1..10}

DigitVal(c) == (CHOOSE i \in 1..10 : Digits[i] = c) - 1

Range(s) == {s[i] : i \in 1..Len(s)}

Max2(a, b) == IF a >= b THEN a ELSE b

SetMin(S) == CHOOSE x \in S : \A y \in S : x <= y

SetMax(S) == CHOOSE x \in S : \A y \in S : x >= y

\* s as a JavaScript array: the elements at the 0-based positions in P, in order
RECURSIVE FilterIdx(_, _, _)
FilterIdx(s, keep, i) ==
    IF i >= Len(s) THEN <<>>
    ELSE (IF i \in keep THEN <<s[i + 1]>> ELSE <<>>) \o FilterIdx(s, keep, i + 1)

\* Array.from(set).sort((a, b) => a - b)
RECURSIVE SortAsc(_)
SortAsc(S) ==
    IF S = {} THEN <<>>
    ELSE LET m == SetMin(S) IN <<m>> \o SortAsc(S \ {m})

\* String(n) for an integer n
RECURSIVE NatToText(_)
NatToText(n) ==
    IF n < 10 THEN <<Digits[n + 1]>>
    ELSE NatToText(n \div 10) \o <<Digits[(n % 10) + 1]>>

IntToText(n) == IF n < 0 THEN <<"-">> \o NatToText(0 - n) ELSE NatToText(n)

\* a JavaScript number that is either NaN or an integer
Num(n) == [nan |-> FALSE, val |-> n]

IsWhite(c) == c = " "

RECURSIVE SkipWhite(_)
SkipWhite(t) ==
    IF t # <<>> /\ IsWhite(Head(t)) THEN SkipWhite(Tail(t)) ELSE t

\* value of the longest prefix of decimal digits of t, continuing from acc
RECURSIVE DigitPrefixVal(_, _)
DigitPrefixVal(t, acc) ==
    IF t # <<>> /\ Head(t) \in DigitChars
    THEN DigitPrefixVal(Tail(t), acc * 10 + DigitVal(Head(t)))
    ELSE acc

\* parseInt(t) without a radix: leading white space, an optional sign, then
\* the longest run of decimal digits; NaN when there is no digit
ParseInt(t) ==
    LET s    == SkipWhite(t)
        neg  == s # <<>> /\ Head(s) = "-"
        sgn  == s # <<>> /\ Head(s) \in {"-", "+"}
        body == IF sgn THEN Tail(s) ELSE s
    IN  IF body = <<>> \/ Head(body) \notin DigitChars THEN [nan |-> TRUE, val |-> 0]
        ELSE IF neg THEN Num(0 - DigitPrefixVal(body, 0))
        ELSE Num(DigitPrefixVal(body, 0))

(***************************************************************************)
(* String methods GuidedSession applies to an utterance.  A letter of the  *)
(* Russian alphabet is written ru_<name> (RU_<name> for the capital).      *)
(***************************************************************************)
UpperLetters ==
    <<"A", "B", "C", "D", "E", "F", "G", "H", "I", "J", "K", "L",
       "M", "N", "O", "P", "Q", "R", "S", "T", "U", "V", "W", "X",
       "Y", "Z", "RU_S", "RU_T", "RU_O", "RU_P">>

LowerChar(c) ==
    LET lower == <<"a", "b", "c", "d", "e", "f", "g", "h", "i", "j", "k", "l",
                   "m", "n", "o", "p", "q", "r", "s", "t", "u", "v", "w", "x",
                   "y", "z", "ru_s", "ru_t", "ru_o", "ru_p">>
    IN  IF \E i \in 1..Len(UpperLetters) : UpperLetters[i] = c
        THEN lower[CHOOSE i \in 1..Len(UpperLetters) : UpperLetters[i] = c]
        ELSE c

\* text.toLowerCase()
ToLowerCase(t) == [i \in 1..Len(t) |-> LowerChar(t[i])]

RECURSIVE TrimRight(_)
TrimRight(t) ==
    IF t # <<>> /\ IsWhite(t[Len(t)]) THEN TrimRight(SubSeq(t, 1, Len(t) - 1)) ELSE t

\* text.trim()
Trim(t) == TrimRight(SkipWhite(t))

\* text.includes(w)
Includes(t, w) == \E i \in 0..(Len(t) - Len(w)) : SubSeq(t, i + 1, i + Len(w)) = w

\* text.replace(a, b) with a string pattern: the first occurrence only
ReplaceFirst(t, a, b) ==
    IF \E i \in 1..Len(t) : t[i] = a
    THEN [t EXCEPT ![SetMin({i \in 1..Len(t) : t[i] = a})] = b]
    ELSE t

\* the number of digits of t from position i on
RECURSIVE DigitRunLen(_, _)
DigitRunLen(t, i) ==
    IF i <= Len(t) /\ t[i] \in DigitChars THEN 1 + DigitRunLen(t, i + 1) ELSE 0

\* the length of the match of /-?\d+(\.\d+)?/ that starts at position i,
\* 0 when there is none
MatchLenAt(t, i) ==
    LET j == IF t[i] = "-" THEN i + 1 ELSE i
        d == DigitRunLen(t, j)
        k == j + d
        f == IF k <= Len(t) /\ t[k] = "." THEN DigitRunLen(t, k + 1) ELSE 0
    IN  IF d = 0 THEN 0
        ELSE (k - i) + (IF f > 0 THEN 1 + f ELSE 0)

\* norm.match(/-?\d+(\.\d+)?/): the leftmost match; <<>> stands for null
FirstNumber(t) ==
    LET starts == {i \in 1..Len(t) : MatchLenAt(t, i) > 0}
    IN  IF starts = {} THEN <<>>
        ELSE LET i == SetMin(starts) IN SubSeq(t, i, i + MatchLenAt(t, i) - 1)


(***************************************************************************)
(* WorkflowWizard: the pipeline editor.                                    *)
(***************************************************************************)
VARIABLES
    plan,             \* useState<WorkflowPlan | null>
    selectedIndices,  \* useState<Set<number>>, 0-based positions
    draggedIdx,       \* useState<number | null>
    editingStepId,    \* useState<string | null>
    editInstruction,  \* useState('')
    editRowIndex,     \* useState<string>(''), a text
    editColumnId,     \* useState<string>('')
    loading,          \* useState(false)
    pending,          \* generateWorkflow requests in flight
    lastOp            \* history: the last handler that ran, with the state it saw

wvars == <<plan, selectedIndices, draggedIdx, editingStepId, editInstruction,
           editRowIndex, editColumnId, loading, pending, lastOp>>

\* null, for a plan, a position and an id
NoPlan == [null |-> TRUE]

NoIdx == -1

NoId == <<"null">>

\* a step the suggestion brought without an id
MissingId == <<>>

Null == "null"

\* ids of table.columns, the table passed to the wizard
TableColumns == <<"c0", "c1">>

Step(id, ins, row, col, typ) ==
    [id |-> id, instruction |-> ins, targetRowIndex |-> row,
     targetColumnId |-> col, expectedType |-> typ]

SeqsUpTo(S, n) == UNION {[1..k -> S] : k \in 0..n}

IsInjective(s) == \A i, j \in 1..Len(s) : s[i] = s[j] => i = j

\* a step of the response without an id: the response schema requires
\* instruction, targetRowIndex and targetColumnId only
StepWithoutId == Step(MissingId, "N", 2, "c0", "number")

\* what generateWorkflow can resolve to, and what table.workflowPlan can hold:
\* any sequence of distinct steps
GeneratedPlans ==
    {[description |-> "desc", steps |-> s] :
        s \in {q \in SeqsUpTo({ Step(<<"s0">>, "A", 0, "c0", "number"),
                                 Step(<<"s1">>, "B", 0, "c1", "text"),
                                 Step(<<"s2">>, "C", 1, "c0", "number"),
                                 Step(<<"s3">>, "D", 3, "c1", "text") },
                               MaxGenLen) : IsInjective(q)}}
    \cup {[description |-> "desc", steps |-> s] :
            s \in { <<StepWithoutId>>,
                    <<Step(<<"s0">>, "A", 0, "c0", "number"), StepWithoutId>> }}

\* Date.now() and Math.random(), as read when an id is made
Times == {1, 2}

RandomValues == {1, 2}

\* n counts the handlers that have run.  The generateWorkflow requests are
\* numbered in the order they are issued: issued is the number of the last one,
\* flying the requests not yet settled, shown the request whose result is the
\* plan, shownBefore the one it replaced.
Op(name, idx, arg) ==
    [op |-> name, pre |-> plan, sel |-> selectedIndices, idx |-> idx, arg |-> arg,
     n |-> lastOp.n + 1, issued |-> lastOp.issued, flying |-> lastOp.flying,
     shown |-> lastOp.shown, shownBefore |-> lastOp.shownBefore]

\* the history before any handler has run
NoOp ==
    [op |-> "init", pre |-> NoPlan, sel |-> {}, idx |-> NoIdx, arg |-> Null,
     n |-> 0, issued |-> 0, flying |-> {}, shown |-> 0, shownBefore |-> 0]

\* alert("Failed to generate plan. Please try again.")
AlertFailed == "Failed to generate plan. Please try again."

NumSteps == IF plan = NoPlan THEN 0 ELSE Len(plan.steps)

InitWizard ==
    /\ plan \in GeneratedPlans \cup {NoPlan}
    /\ selectedIndices = {}
    /\ draggedIdx = NoIdx
    /\ editingStepId = NoId
    /\ editInstruction = ""
    /\ editRowIndex = <<>>
    /\ editColumnId = ""
    /\ loading = FALSE
    /\ pending = 0
    /\ lastOp = NoOp

(***************************************************************************)
(* Array helpers as the handlers use them (0-based positions).             *)
(***************************************************************************)
\* steps[i] of a JavaScript array
At(steps, i) == steps[i + 1]

\* steps.filter((_, i) => i !== index)
RemoveAt(steps, index) == FilterIdx(steps, (0..(Len(steps) - 1)) \ {index}, 0)

\* a.splice(start, 1) on a copy: the array left, start clamped to the length
SpliceOut(a, start) ==
    IF start >= Len(a) THEN a
    ELSE SubSeq(a, 1, start) \o SubSeq(a, start + 2, Len(a))

\* a.splice(start, 0, item) on a copy: start clamped to the length
SpliceIn(a, start, item) ==
    LET at == IF start > Len(a) THEN Len(a) ELSE start
    IN  SubSeq(a, 1, at) \o <<item>> \o SubSeq(a, at + 1, Len(a))

Undefined == [undefined |-> TRUE]

\* Reorder that drops the step in front of the target as numbered before the
\* removal: the insertion position is one less when dragging downwards
ReorderBeforeTarget(steps, from, to) ==
    LET movedItem == IF from < Len(steps) THEN steps[from + 1] ELSE Undefined
        rest == IF from >= Len(steps) THEN steps
                ELSE SubSeq(steps, 1, from) \o SubSeq(steps, from + 2, Len(steps))
        at == IF to > from THEN to - 1 ELSE to
    IN  SubSeq(rest, 1, at) \o <<movedItem>> \o SubSeq(rest, at + 1, Len(rest))

\* Reorder that swaps the dragged step with the one at the target
ReorderSwap(steps, from, to) ==
    [k \in 1..Len(steps) |->
        IF k = to + 1 THEN At(steps, from)
        ELSE IF k = from + 1 THEN At(steps, to)
        ELSE steps[k]]

\* onDrop's three array statements: copy, take the dragged step out, put it
\* back at dropIndex
Reorder(steps, from, to) ==
    LET movedItem == IF from < Len(steps) THEN At(steps, from) ELSE Undefined
    IN  SpliceIn(SpliceOut(steps, from), to, movedItem)

\* SmartOffset with the +1 forgotten: maxRow - minRow || 1
SmartOffsetNoPlusOne(rows) ==
    LET span == SetMax(rows) - SetMin(rows)
    IN  IF span = 0 THEN 1 ELSE span

\* (maxRow - minRow) + 1 || 1 over the rows of the selected steps
SmartOffset(rows) ==
    LET minRow == SetMin(rows)
        maxRow == SetMax(rows)
        span   == (maxRow - minRow) + 1
    IN  IF span = 0 THEN 1 ELSE span

\* SelectedSteps with the comparator reversed: sort((a, b) => b - a)
SelectedStepsDescending(steps, sel) ==
    LET indices == SortAsc(sel)
        n == Len(indices)
    IN  [k \in 1..n |-> steps[indices[n + 1 - k] + 1]]

\* const indices = Array.from(selectedIndices).sort(...);
\* const selectedSteps = indices.map(i => plan.steps[i])
SelectedSteps(steps, sel) ==
    LET indices == SortAsc(sel)
    IN  [k \in 1..Len(indices) |-> At(steps, indices[k])]

\* the copies duplicateSelected appends; ids[k] is the id made for the k-th
Duplicates(steps, sel, ids) ==
    LET selectedSteps == SelectedSteps(steps, sel)
        offset == SmartOffset({selectedSteps[k].targetRowIndex : k \in 1..Len(selectedSteps)})
    IN  [k \in 1..Len(selectedSteps) |->
            [selectedSteps[k] EXCEPT !.id = ids[k],
                                     !.targetRowIndex = selectedSteps[k].targetRowIndex + offset]]

\* DeleteAll done one position after the other on the shrinking array
RECURSIVE DeleteOneByOne(_, _)
DeleteOneByOne(steps, sel) ==
    IF sel = {} THEN steps
    ELSE LET i == SetMin(sel)
         IN  DeleteOneByOne(
                 IF i < Len(steps)
                 THEN SubSeq(steps, 1, i) \o SubSeq(steps, i + 2, Len(steps))
                 ELSE steps,
                 sel \ {i})

\* plan.steps.filter((_, i) => !selectedIndices.has(i))
DeleteAll(steps, sel) == FilterIdx(steps, (0..(Len(steps) - 1)) \ sel, 0)

\* RowFromText without the floor: isNaN(parsedRow) ? 0 : parsedRow - 1
RowFromTextNoFloor(t) ==
    LET parsedRow == ParseInt(t)
    IN  IF parsedRow.nan THEN 0 ELSE parsedRow.val - 1

\* isNaN(parsedRow) ? 0 : Math.max(0, parsedRow - 1)
RowFromText(t) ==
    LET parsedRow == ParseInt(t)
    IN  IF parsedRow.nan THEN 0 ELSE Max2(0, parsedRow.val - 1)

\* const stepId = step.id || `step_${idx}` (the render of one step)
StepId(step, idx) == IF step.id = MissingId THEN <<"step", idx>> ELSE step.id

IsEditing(idx) == editingStepId = StepId(At(plan.steps, idx), idx)

Positions == 0..(NumSteps - 1)

\* the edit form is on screen
EditFormShown == plan # NoPlan /\ \E idx \in Positions : IsEditing(idx)

(***************************************************************************)
(* WorkflowWizard handlers.                                                *)
(***************************************************************************)
HandleGenerate ==
    /\ plan = NoPlan => ~loading
    /\ plan # NoPlan => selectedIndices = {}
    /\ pending < MaxPending
    /\ loading' = TRUE
    /\ pending' = pending + 1
    /\ lastOp' = [Op("handleGenerate", NoIdx, Null) EXCEPT
                     !.issued = lastOp.issued + 1,
                     !.flying = lastOp.flying \cup {lastOp.issued + 1}]
    /\ UNCHANGED <<plan, selectedIndices, draggedIdx, editingStepId,
                   editInstruction, editRowIndex, editColumnId>>

\* GenerateResolved without setSelectedIndices(new Set())
GenerateResolvedKeepsSelection ==
    /\ pending > 0
    /\ \E generatedPlan \in GeneratedPlans, request \in lastOp.flying :
          /\ plan' = generatedPlan
          /\ lastOp' = [Op("generated", NoIdx, generatedPlan) EXCEPT
                           !.flying = lastOp.flying \ {request},
                           !.shown = request,
                           !.shownBefore = lastOp.shown]
    /\ loading' = FALSE
    /\ pending' = pending - 1
    /\ UNCHANGED <<selectedIndices, draggedIdx, editingStepId, editInstruction,
                   editRowIndex, editColumnId>>

\* the request resolved: setPlan(generatedPlan); setSelectedIndices(new Set())
GenerateResolved ==
    /\ pending > 0
    /\ \E generatedPlan \in GeneratedPlans, request \in lastOp.flying :
          /\ plan' = generatedPlan
          /\ lastOp' = [Op("generated", NoIdx, generatedPlan) EXCEPT
                           !.flying = lastOp.flying \ {request},
                           !.shown = request,
                           !.shownBefore = lastOp.shown]
    /\ selectedIndices' = {}
    /\ loading' = FALSE
    /\ pending' = pending - 1
    /\ UNCHANGED <<draggedIdx, editingStepId, editInstruction, editRowIndex,
                   editColumnId>>

\* GenerateFailed that drops the plan
GenerateFailedDropsPlan ==
    /\ pending > 0
    /\ plan' = NoPlan
    /\ loading' = FALSE
    /\ pending' = pending - 1
    /\ \E request \in lastOp.flying :
          lastOp' = [Op("generateFailed", NoIdx, AlertFailed) EXCEPT
                        !.flying = lastOp.flying \ {request}]
    /\ UNCHANGED <<selectedIndices, draggedIdx, editingStepId,
                   editInstruction, editRowIndex, editColumnId>>

\* the request failed: console.error, alert, setLoading(false)
GenerateFailed ==
    /\ pending > 0
    /\ loading' = FALSE
    /\ pending' = pending - 1
    /\ \E request \in lastOp.flying :
          lastOp' = [Op("generateFailed", NoIdx, AlertFailed) EXCEPT
                        !.flying = lastOp.flying \ {request}]
    /\ UNCHANGED <<plan, selectedIndices, draggedIdx, editingStepId,
                   editInstruction, editRowIndex, editColumnId>>

\* deleteStep without setSelectedIndices(new Set())
deleteStepKeepsSelection(index) ==
    /\ plan # NoPlan
    /\ plan' = [plan EXCEPT !.steps = RemoveAt(plan.steps, index)]
    /\ lastOp' = Op("deleteStep", index, Null)
    /\ UNCHANGED <<selectedIndices, draggedIdx, editingStepId, editInstruction,
                   editRowIndex, editColumnId, loading, pending>>

deleteStep(index) ==
    /\ plan # NoPlan
    /\ plan' = [plan EXCEPT !.steps = RemoveAt(plan.steps, index)]
    /\ selectedIndices' = {}
    /\ lastOp' = Op("deleteStep", index, Null)
    /\ UNCHANGED <<draggedIdx, editingStepId, editInstruction, editRowIndex,
                   editColumnId, loading, pending>>

startEditing(idx, now) ==
    /\ plan # NoPlan
    /\ LET step == At(plan.steps, idx)
       IN  /\ editingStepId' = (IF step.id = MissingId THEN <<"step", idx, now>> ELSE step.id)
           /\ editInstruction' = step.instruction
           /\ editRowIndex' = IntToText(step.targetRowIndex + 1)
           /\ editColumnId' = step.targetColumnId
    /\ lastOp' = Op("startEditing", idx, Null)
    /\ UNCHANGED <<plan, selectedIndices, draggedIdx, loading, pending>>

SetEditInstruction(v) ==
    /\ EditFormShown
    /\ editInstruction' = v
    /\ lastOp' = Op("setEditInstruction", NoIdx, v)
    /\ UNCHANGED <<plan, selectedIndices, draggedIdx, editingStepId,
                   editRowIndex, editColumnId, loading, pending>>

SetEditRowIndex(t) ==
    /\ EditFormShown
    /\ editRowIndex' = t
    /\ lastOp' = Op("setEditRowIndex", NoIdx, t)
    /\ UNCHANGED <<plan, selectedIndices, draggedIdx, editingStepId,
                   editInstruction, editColumnId, loading, pending>>

SetEditColumnId(c) ==
    /\ EditFormShown
    /\ editColumnId' = c
    /\ lastOp' = Op("setEditColumnId", NoIdx, c)
    /\ UNCHANGED <<plan, selectedIndices, draggedIdx, editingStepId,
                   editInstruction, editRowIndex, loading, pending>>

saveStepEdit(index) ==
    /\ plan # NoPlan
    /\ IsEditing(index)
    /\ plan' = [plan EXCEPT !.steps[index + 1] =
                   [@ EXCEPT !.instruction = editInstruction,
                             !.targetRowIndex = RowFromText(editRowIndex),
                             !.targetColumnId = editColumnId]]
    /\ editingStepId' = NoId
    /\ lastOp' = Op("saveStepEdit", index, editRowIndex)
    /\ UNCHANGED <<selectedIndices, draggedIdx, editInstruction, editRowIndex,
                   editColumnId, loading, pending>>

\* addNewStep that puts the new step in front
addNewStepInFront(now) ==
    /\ NumSteps < MaxSteps
    /\ IF plan = NoPlan
       THEN UNCHANGED plan
       ELSE LET lastStep == IF plan.steps = <<>> THEN Undefined
                            ELSE At(plan.steps, Len(plan.steps) - 1)
                defaultRow == IF lastStep = Undefined THEN 0
                              ELSE lastStep.targetRowIndex
                newStep == Step(<<"manual", now>>, "New Step", defaultRow,
                                IF TableColumns = <<>> THEN "col_0"
                                ELSE TableColumns[1],
                                "text")
            IN  plan' = [plan EXCEPT !.steps = <<newStep>> \o plan.steps]
    /\ lastOp' = Op("addNewStep", NoIdx, now)
    /\ UNCHANGED <<selectedIndices, draggedIdx, editingStepId, editInstruction,
                   editRowIndex, editColumnId, loading, pending>>

\* if (!plan) return; then the new step is appended
addNewStep(now) ==
    /\ NumSteps < MaxSteps
    /\ IF plan = NoPlan
       THEN UNCHANGED plan
       ELSE LET lastStep == IF plan.steps = <<>> THEN Undefined
                            ELSE At(plan.steps, Len(plan.steps) - 1)
                defaultRow == IF lastStep = Undefined THEN 0
                              ELSE lastStep.targetRowIndex
                newStep == Step(<<"manual", now>>, "New Step", defaultRow,
                                IF TableColumns = <<>> THEN "col_0"
                                ELSE TableColumns[1],
                                "text")
            IN  plan' = [plan EXCEPT !.steps = Append(plan.steps, newStep)]
    /\ lastOp' = Op("addNewStep", NoIdx, now)
    /\ UNCHANGED <<selectedIndices, draggedIdx, editingStepId, editInstruction,
                   editRowIndex, editColumnId, loading, pending>>

toggleSelection(index) ==
    /\ plan # NoPlan
    /\ selectedIndices' = IF index \in selectedIndices
                          THEN selectedIndices \ {index}
                          ELSE selectedIndices \cup {index}
    /\ lastOp' = Op("toggleSelection", index, Null)
    /\ UNCHANGED <<plan, draggedIdx, editingStepId, editInstruction,
                   editRowIndex, editColumnId, loading, pending>>

duplicateSelected(now, rnd) ==
    /\ plan # NoPlan
    /\ selectedIndices # {}
    /\ Len(plan.steps) + Cardinality(selectedIndices) <= MaxSteps
    /\ LET ids == [k \in 1..Cardinality(selectedIndices) |-> <<"copy", now, rnd[k]>>]
       IN  plan' = [plan EXCEPT !.steps =
                       plan.steps \o Duplicates(plan.steps, selectedIndices, ids)]
    /\ selectedIndices' = {}
    /\ lastOp' = Op("duplicateSelected", NoIdx, Null)
    /\ UNCHANGED <<draggedIdx, editingStepId, editInstruction, editRowIndex,
                   editColumnId, loading, pending>>

deleteSelected ==
    /\ plan # NoPlan
    /\ selectedIndices # {}
    /\ plan' = [plan EXCEPT !.steps = DeleteAll(plan.steps, selectedIndices)]
    /\ selectedIndices' = {}
    /\ lastOp' = Op("deleteSelected", NoIdx, Null)
    /\ UNCHANGED <<draggedIdx, editingStepId, editInstruction, editRowIndex,
                   editColumnId, loading, pending>>

onDragStart(index) ==
    /\ plan # NoPlan
    /\ ~IsEditing(index)
    /\ draggedIdx' = index
    /\ lastOp' = Op("onDragStart", index, Null)
    /\ UNCHANGED <<plan, selectedIndices, editingStepId, editInstruction,
                   editRowIndex, editColumnId, loading, pending>>

onDrop(dropIndex) ==
    /\ plan # NoPlan
    /\ draggedIdx # NoIdx
    /\ plan' = [plan EXCEPT !.steps = Reorder(plan.steps, draggedIdx, dropIndex)]
    /\ draggedIdx' = NoIdx
    /\ lastOp' = Op("onDrop", draggedIdx, dropIndex)
    /\ UNCHANGED <<selectedIndices, editingStepId, editInstruction,
                   editRowIndex, editColumnId, loading, pending>>

\* the list renders: plan.steps.map reads step.id of every element, and throws
\* on an element that is undefined
Renders ==
    IF plan = NoPlan THEN TRUE
    ELSE \A k \in 1..Len(plan.steps) : plan.steps[k] # Undefined

\* the (re)generation request and its two outcomes
GenerateEvent ==
    \/ HandleGenerate
    \/ GenerateResolved
    \/ GenerateFailed

\* selection and the edits that change the number of steps
StructureEvent ==
    \/ \E index \in Positions : toggleSelection(index)
    \/ \E now \in Times, rnd \in [1..Cardinality(selectedIndices) -> RandomValues] :
          duplicateSelected(now, rnd)
    \/ deleteSelected
    \/ \E index \in Positions : deleteStep(index)
    \/ \E now \in Times : addNewStep(now)

\* drag and drop
DragEvent ==
    \/ \E index \in Positions : onDragStart(index)
    \/ \E dropIndex \in Positions : onDrop(dropIndex)

\* the edit form of one step
EditEvent ==
    \/ \E idx \in Positions, now \in Times : startEditing(idx, now)
    \/ \E v \in ({"A", "E"}) : SetEditInstruction(v)
    \/ \E t \in { <<>>, <<"0">>, <<"1">>, <<"2">>, <<"4">>, <<"-", "2">>,
                  <<"1", "0">>, <<"2", ".", "7">>, <<"0", ".", "5">> } :
          SetEditRowIndex(t)
    \/ \E c \in Range(TableColumns) : SetEditColumnId(c)
    \/ \E index \in Positions : saveStepEdit(index)

\* no handler runs once the render has thrown
Running == Renders /\ lastOp.n < MaxOps

(***************************************************************************)
(* App and GuidedSession: the table and the guided session that fills it.  *)
(***************************************************************************)
VARIABLES
    language,          \* App: useState<Language>
    activeWorkflow,    \* App: useState<WorkflowPlan | null>, the session's plan
    rows,              \* App: currentTable.rows
    currentStepIndex,  \* GuidedSession: useState(0)
    isListening,       \* GuidedSession: useState(false)
    transcript,        \* GuidedSession: useState(''), a text
    refClosure,        \* what the handlers of recognitionRef.current closed over
    capturing,         \* the recognizer that was started and has not ended
    crashed,           \* a render or an effect has thrown: the tree is gone
    speaking,          \* window.speechSynthesis is speaking an instruction
    saved,             \* services/db: the rows of the last saveTable call
    sOp,               \* history: the last session handler, with the state it saw
    told               \* history: value utterances told by voice alone, -1 if
                       \* anything else has happened

svars == <<language, activeWorkflow, rows, currentStepIndex, isListening,
           transcript, refClosure, capturing, crashed, speaking, saved, sOp, told>>

\* a position of the rows array nothing was ever stored at
Hole == [hole |-> TRUE]

\* what the recognizer can hear, by the language it listens in
Utterances(lang) ==
    IF lang = "en"
    THEN { <<"s", "e", "v", "e", "n">>,
           <<"t", "h", "e", "n", ",", " ", "1", ",", "5">>,
           <<"n", "e", "x", "t", " ", "s", "t", "o", "p", " ", "4">>,
           <<"S", "k", "i", "p">>,
           <<" ", "7", " ">> }
    ELSE { <<"1", "2", ",", "5">>,
           <<"ru_s", "ru_t", "ru_o", "ru_p", " ", "4", "2">>,
           <<"ru_s", "ru_k", "ru_i", "ru_p">>,
           <<" ">> }

\* const stopWords = language === 'ru' ? [...] : ['stop', 'exit']
StopWords(lang) ==
    IF lang = "ru"
    THEN { <<"ru_s", "ru_t", "ru_o", "ru_p">>,
           <<"ru_v", "ru_y", "ru_h", "ru_o", "ru_d">>,
           <<"ru_h", "ru_v", "ru_a", "ru_t", "ru_i", "ru_t">> }
    ELSE { <<"s", "t", "o", "p">>,
           <<"e", "x", "i", "t">> }

\* const nextWords = language === 'ru' ? [...] : ['skip', 'next']
NextWords(lang) ==
    IF lang = "ru"
    THEN { <<"ru_d", "ru_a", "ru_l", "ru_soft", "ru_sh", "ru_e">>,
           <<"ru_p", "ru_r", "ru_o", "ru_p", "ru_u", "ru_s", "ru_t", "ru_i", "ru_t", "ru_soft">>,
           <<"ru_s", "ru_k", "ru_i", "ru_p">> }
    ELSE { <<"s", "k", "i", "p">>,
           <<"n", "e", "x", "t">> }

\* CleanText without the trim
CleanTextNoTrim(text) == ToLowerCase(text)

\* text.trim().toLowerCase()
CleanText(text) == ToLowerCase(Trim(text))

\* ClassifyText with the two keyword tests in the other order
ClassifySkipFirst(cleanText, lang) ==
    IF cleanText = <<>> THEN "empty"
    ELSE IF \E w \in NextWords(lang) : Includes(cleanText, w) THEN "skip"
    ELSE IF \E w \in StopWords(lang) : Includes(cleanText, w) THEN "stop"
    ELSE "value"

\* the branch handleResult takes
ClassifyText(cleanText, lang) ==
    IF cleanText = <<>> THEN "empty"
    ELSE IF \E w \in StopWords(lang) : Includes(cleanText, w) THEN "stop"
    ELSE IF \E w \in NextWords(lang) : Includes(cleanText, w) THEN "skip"
    ELSE "value"

\* the value handleResult hands to onValueReceived
NormalizeValue(cleanText, expectedType) ==
    IF expectedType = "number"
    THEN LET norm == ReplaceFirst(cleanText, ",", ".")
             match == FirstNumber(norm)
         IN  IF match # <<>> THEN match ELSE cleanText
    ELSE cleanText

\* newRows[rowIndex] of handleGuidedValue's copy: undefined past the end
RowAt(rs, rowIndex) == IF rowIndex < Len(rs) THEN rs[rowIndex + 1] ELSE Hole

\* { ...row, [colId]: val }
WithCell(row, colId, val) ==
    [k \in (DOMAIN row) \cup {colId} |-> IF k = colId THEN val ELSE row[k]]

\* GuidedWrite that stores a new row in place of the row
GuidedWriteFreshRow(rs, rowIndex, colId, val) ==
    LET base == [c \in Range(TableColumns) |-> <<>>]
        len == Max2(Len(rs), rowIndex + 1)
    IN  [i \in 1..len |->
            IF i = rowIndex + 1 THEN WithCell(base, colId, val)
            ELSE RowAt(rs, i - 1)]

\* handleGuidedValue on currentTable.rows = rs
GuidedWrite(rs, rowIndex, colId, val) ==
    LET base == IF RowAt(rs, rowIndex) = Hole
                THEN [c \in Range(TableColumns) |-> <<>>]
                ELSE RowAt(rs, rowIndex)
        len == Max2(Len(rs), rowIndex + 1)
    IN  [i \in 1..len |->
            IF i = rowIndex + 1 THEN WithCell(base, colId, val)
            ELSE RowAt(rs, i - 1)]

NoRec == [none |-> TRUE]

\* saveTable has not been called
NoSave == [written |-> FALSE, rows |-> <<>>]

\* saveTable({ ...currentTable, rows: newRows, ... })
Save(newRows) == [written |-> TRUE, rows |-> newRows]

NoWrite == [none |-> TRUE]

\* what the functions made in one render of GuidedSession see
Closure(idx, text, rs, wf) ==
    [idx |-> idx, transcript |-> text, rows |-> rs, plan |-> wf]

\* the closure of the render on screen
Current == Closure(currentStepIndex, transcript, rows, activeWorkflow)

Mounted == activeWorkflow # NoPlan /\ ~crashed

SOp(name, text, cl, kind, wrote) ==
    [op |-> name, text |-> text, idx |-> cl.idx, plan |-> cl.plan,
     cur |-> currentStepIndex, rows |-> rows, mounted |-> Mounted,
     kind |-> kind, wrote |-> wrote,
     heard |-> IF capturing = NoRec THEN <<>> ELSE capturing.heard]

InitSession ==
    /\ language \in ({"en", "ru"})
    /\ activeWorkflow \in
          { [description |-> "desc", steps |-> st] :
              st \in { <<Step(<<"s0">>, "A", 0, "c0", "number"),
                         Step(<<"s2">>, "C", 1, "c0", "number")>>,
                       <<Step(<<"s1">>, "B", 0, "c1", "text")>>,
                       <<Step(<<"s0">>, "A", 0, "c0", "number"),
                         Step(<<"s1">>, "B", 0, "c1", "text"),
                         Step(<<"s3">>, "D", 2, "c0", "number")>> } }
    /\ rows \in ({ <<>>, <<[c \in Range(TableColumns) |-> <<"9">>]>> })
    /\ currentStepIndex = 0
    /\ isListening = FALSE
    /\ transcript = <<>>
    /\ refClosure = Closure(0, <<>>, rows, activeWorkflow)
    /\ capturing = NoRec
    /\ crashed = FALSE
    /\ speaking = TRUE
    /\ saved = NoSave
    /\ sOp = [op |-> "init", text |-> <<>>, idx |-> 0, plan |-> activeWorkflow,
              cur |-> 0, rows |-> rows, mounted |-> TRUE, kind |-> "none",
              wrote |-> NoWrite, heard |-> <<>>]
    /\ told = 0

\* the speech effect has [currentStepIndex, transcript, language] as its
\* dependencies: it makes a new recognizer when one of them changed
EffectRuns(newIdx, newText, newWf) ==
    Mounted /\ newWf # NoPlan /\ (newIdx # currentStepIndex \/ newText # transcript)

\* the state updates of one handler, then the render and the effects.  The
\* updates of an unmounted GuidedSession are dropped; App is still there.
\* The TTS effect has [currentStepIndex, language] as its dependencies: it
\* cancels the speech, reads currentStep.instruction (and throws past the last
\* step) and speaks it.  Neither effect has a cleanup.
Render(newIdx, newText, newListening, newRows, newWf, newCapturing) ==
    /\ rows' = newRows
    /\ activeWorkflow' = newWf
    /\ IF Mounted
       THEN /\ currentStepIndex' = newIdx
            /\ transcript' = newText
            /\ isListening' = newListening
       ELSE UNCHANGED <<currentStepIndex, transcript, isListening>>
    /\ crashed' = (Mounted /\ newWf # NoPlan /\ newIdx >= Len(newWf.steps))
    /\ speaking' = IF Mounted /\ newWf # NoPlan /\ newIdx # currentStepIndex
                   THEN newIdx < Len(newWf.steps)
                   ELSE speaking
    /\ refClosure' = IF EffectRuns(newIdx, newText, newWf)
                     THEN Closure(newIdx, newText, newRows, newWf)
                     ELSE refClosure
    /\ capturing' = IF newCapturing # NoRec /\ EffectRuns(newIdx, newText, newWf)
                    THEN [newCapturing EXCEPT !.isRef = FALSE]
                    ELSE newCapturing
    /\ UNCHANGED language

\* NextStep that finishes one step early
NextStepEarly(cl, newListening, newRows, newCapturing) ==
    IF cl.idx < Len(cl.plan.steps) - 2
    THEN Render(currentStepIndex + 1, <<>>, newListening, newRows,
                activeWorkflow, newCapturing)
    ELSE Render(currentStepIndex, transcript, newListening, newRows,
                NoPlan, newCapturing)

\* nextStep() of the render cl, after the table became newRows
NextStep(cl, newListening, newRows, newCapturing) ==
    IF cl.idx < Len(cl.plan.steps) - 1
    THEN Render(currentStepIndex + 1, <<>>, newListening, newRows,
                activeWorkflow, newCapturing)
    ELSE Render(currentStepIndex, transcript, newListening, newRows,
                NoPlan, newCapturing)

\* handleResult(text) of the render cl
HandleResult(name, text, cl, newListening, newCapturing) ==
    LET cleanText == CleanText(text)
        kind == ClassifyText(cleanText, language)
        currentStep == cl.plan.steps[cl.idx + 1]
        value == NormalizeValue(cleanText, currentStep.expectedType)
    IN  CASE kind = "empty" ->
               /\ Render(currentStepIndex, transcript, newListening, rows,
                         activeWorkflow, newCapturing)
               /\ sOp' = SOp(name, text, cl, kind, NoWrite)
               /\ UNCHANGED saved
          [] kind = "stop" ->
               /\ Render(currentStepIndex, transcript, newListening, rows,
                         NoPlan, newCapturing)
               /\ sOp' = SOp(name, text, cl, kind, NoWrite)
               /\ UNCHANGED saved
          [] kind = "skip" ->
               /\ NextStep(cl, newListening, rows, newCapturing)
               /\ sOp' = SOp(name, text, cl, kind, NoWrite)
               /\ UNCHANGED saved
          [] kind = "value" ->
               /\ NextStep(cl, newListening,
                           GuidedWrite(cl.rows, currentStep.targetRowIndex,
                                       currentStep.targetColumnId, value),
                           newCapturing)
               /\ saved' = Save(GuidedWrite(cl.rows, currentStep.targetRowIndex,
                                            currentStep.targetColumnId, value))
               /\ sOp' = SOp(name, text, cl, kind,
                             [row |-> currentStep.targetRowIndex,
                              col |-> currentStep.targetColumnId,
                              value |-> value])

\* the mic button: start or stop the recognizer in recognitionRef.current.
\* start() is modelled when no recognizer is capturing (on the capturing
\* instance it throws InvalidStateError and changes nothing); stop() reaches
\* the capturing recognizer only if the ref still holds it.
toggleMic ==
    /\ Mounted
    /\ IF isListening
       THEN /\ capturing # NoRec
            /\ capturing' = [capturing EXCEPT !.stopped = capturing.isRef]
            /\ sOp' = SOp("micStop", <<>>, Current, "none", NoWrite)
       ELSE /\ capturing = NoRec
            /\ capturing' = [cl |-> refClosure, phase |-> "starting",
                             heard |-> <<>>, isRef |-> TRUE, stopped |-> FALSE]
            /\ sOp' = SOp("micStart", <<>>, Current, "none", NoWrite)
    /\ UNCHANGED <<language, activeWorkflow, rows, currentStepIndex, isListening,
                   transcript, refClosure, crashed, speaking, saved, told>>

\* recognition.onstart
RecOnStart ==
    /\ ~crashed
    /\ capturing # NoRec
    /\ capturing.phase = "starting"
    /\ Render(currentStepIndex, <<>>, TRUE, rows, activeWorkflow,
              [capturing EXCEPT !.phase = "listening"])
    /\ sOp' = SOp("onstart", <<>>, capturing.cl, "none", NoWrite)
    /\ UNCHANGED <<told, saved>>

\* recognition.onresult, with the transcript of the event
RecOnResult(text) ==
    /\ ~crashed
    /\ capturing # NoRec
    /\ capturing.phase = "listening"
    /\ ~capturing.stopped
    /\ Render(currentStepIndex, text, isListening, rows, activeWorkflow,
              [capturing EXCEPT !.heard = text])
    /\ sOp' = SOp("onresult", text, capturing.cl, "none", NoWrite)
    /\ UNCHANGED <<told, saved>>

\* recognition.onend: setIsListening(false); handleResult(transcript)
RecOnEnd ==
    /\ ~crashed
    /\ capturing # NoRec
    /\ HandleResult("onend", capturing.cl.transcript, capturing.cl, FALSE, NoRec)
    /\ told' = IF /\ told >= 0
                  /\ told < Len(capturing.cl.plan.steps)
                  /\ ClassifyText(CleanText(capturing.heard), language) = "value"
               THEN told + 1 ELSE -1

\* the Enter button: handleResult(transcript)
PressEnter ==
    /\ Mounted
    /\ HandleResult("enter", transcript, Current, isListening, capturing)
    /\ told' = -1

\* the Skip button: nextStep()
PressSkip ==
    /\ Mounted
    /\ NextStep(Current, isListening, rows, capturing)
    /\ sOp' = SOp("skip", <<>>, Current, "skip", NoWrite)
    /\ told' = -1
    /\ UNCHANGED saved

\* the close button: onClose()
PressClose ==
    /\ Mounted
    /\ Render(currentStepIndex, transcript, isListening, rows, NoPlan, capturing)
    /\ sOp' = SOp("close", <<>>, Current, "none", NoWrite)
    /\ told' = -1
    /\ UNCHANGED saved

\* the synthesizer has spoken the instruction to its end
SpeechEnds ==
    /\ speaking
    /\ speaking' = FALSE
    /\ UNCHANGED <<language, activeWorkflow, rows, currentStepIndex, isListening,
                   transcript, refClosure, capturing, crashed, saved, sOp, told>>

SessionEvent ==
    \/ toggleMic
    \/ RecOnStart
    \/ \E text \in Utterances(language) : RecOnResult(text)
    \/ RecOnEnd
    \/ PressEnter
    \/ PressSkip
    \/ PressClose
    \/ SpeechEnds

(***************************************************************************)
(* App: the result of a voice command applied to the table.                *)
(***************************************************************************)
VARIABLES
    feedback,          \* App: useState<string | null>
    vOp                \* history: the last result handled, with the rows it met

avars == <<feedback, vOp>>

\* rows of the table when a voice command arrives
MaxRows == 2
\* rowUpdates entries of one result
MaxBatch == 3

VoiceEntries ==
    [rowIndex : ({-1, 0, 1, 3}), updates : ({ [c0 |-> <<"x">>], [c0 |-> <<"z">>, c1 |-> <<"y">>] })]

VoiceResults ==
    [rowUpdates : SeqsUpTo(VoiceEntries, MaxBatch),
     action : ({"update", "append", "delete", "unknown"}),
     feedback : {"ok"}]

\* IsAppend that looks at the entry's rowIndex only
IsAppendByIndexOnly(update, action) ==
    update.rowIndex = -1

\* update.rowIndex === -1 || result.action === 'append'
IsAppend(update, action) ==
    update.rowIndex = -1 \/ action = "append"

\* InRange without the test against newRows.length
InRangeNoUpperBound(update, newRows) ==
    update.rowIndex >= 0

\* update.rowIndex >= 0 && update.rowIndex < newRows.length
InRange(update, newRows) ==
    update.rowIndex >= 0 /\ update.rowIndex < Len(newRows)

\* MergeRow that keeps nothing of the row
MergeRowReplace(row, updates) ==
    updates

\* { ...row, ...updates }; spreading undefined adds nothing
MergeRow(row, updates) ==
    IF row = Hole THEN updates
    ELSE [k \in (DOMAIN row) \cup (DOMAIN updates) |->
             IF k \in DOMAIN updates THEN updates[k] ELSE row[k]]

\* newRows[rowIndex] = row: an index past the end lengthens the array
SetRow(newRows, rowIndex, row) ==
    [i \in 1..Max2(Len(newRows), rowIndex + 1) |->
        IF i = rowIndex + 1 THEN row ELSE RowAt(newRows, i - 1)]

\* the body of result.rowUpdates.forEach
ApplyEntry(newRows, action, update) ==
    IF IsAppend(update, action)
    THEN Append(newRows, update.updates)
    ELSE IF InRange(update, newRows)
    THEN SetRow(newRows, update.rowIndex,
                MergeRow(RowAt(newRows, update.rowIndex), update.updates))
    ELSE newRows

RECURSIVE ApplyAll(_, _, _)
\* result.rowUpdates.forEach(...) on newRows
ApplyAll(newRows, action, updates) ==
    IF updates = <<>> THEN newRows
    ELSE ApplyAll(ApplyEntry(newRows, action, Head(updates)), action, Tail(updates))

InitVoice ==
    /\ feedback = Null
    /\ vOp = [op |-> "init", pre |-> <<>>,
              result |-> [rowUpdates |-> <<>>, action |-> "unknown", feedback |-> ""]]

\* one voice command is followed from the table it meets
handleVoiceUpdate(result) ==
    /\ vOp.op = "init"
    /\ feedback' = result.feedback
    /\ rows' = ApplyAll(rows, result.action, result.rowUpdates)
    /\ saved' = Save(ApplyAll(rows, result.action, result.rowUpdates))
    /\ vOp' = [op |-> "handleVoiceUpdate", pre |-> rows, result |-> result]
    /\ UNCHANGED <<language, activeWorkflow, currentStepIndex, isListening,
                   transcript, refClosure, capturing, crashed, speaking, sOp, told>>

VoiceEvent ==
    \E result \in VoiceResults : handleVoiceUpdate(result)

\* the table is open, with neither the editor nor a session over it
TableOpen ==
    /\ language = "en"
    /\ activeWorkflow = NoPlan
    /\ rows \in SeqsUpTo({ [c0 |-> <<"a">>, c1 |-> <<"b">>],
                           [c0 |-> <<"9">>, c1 |-> <<>>] }, MaxRows)
    /\ currentStepIndex = 0
    /\ isListening = FALSE
    /\ transcript = <<>>
    /\ refClosure = Closure(0, <<>>, <<>>, NoPlan)
    /\ capturing = NoRec
    /\ crashed = FALSE
    /\ speaking = FALSE
    /\ saved = NoSave
    /\ sOp = [op |-> "init", text |-> <<>>, idx |-> 0, plan |-> NoPlan,
              cur |-> 0, rows |-> <<>>, mounted |-> FALSE, kind |-> "none",
              wrote |-> NoWrite, heard |-> <<>>]
    /\ told = 0

(***************************************************************************)
(* App and VoiceControl: the edits of the open table, with a voice command *)
(* being parsed.                                                           *)
(***************************************************************************)
VARIABLES
    parsing,           \* VoiceControl: the process() call awaiting parseVoiceCommand
    tOp                \* history: the last table handler, with the rows it met

tvars == <<parsing, tOp>>

\* table handlers run in one behaviour
MaxTableOps == 3

NoProcess == [active |-> FALSE, rows |-> <<>>]

\* results of parseVoiceCommand with one entry
ProcessResults ==
    {[rowUpdates |-> <<e>>, action |-> a, feedback |-> "ok"] :
        e \in VoiceEntries, a \in {"update", "append"}}

TOp(name, arg) == [op |-> name, pre |-> rows, arg |-> arg, n |-> tOp.n + 1]

InitProcess ==
    /\ parsing = NoProcess
    /\ tOp = [op |-> "init", pre |-> <<>>, arg |-> Null, n |-> 0]

\* the processing effect of VoiceControl: the listening has stopped with a
\* transcript; process() keeps the onUpdate of this render, that is the
\* handleVoiceUpdate that reads this render's currentTable
StartProcess ==
    /\ ~parsing.active
    /\ parsing' = [active |-> TRUE, rows |-> rows]
    /\ tOp' = TOp("process", Null)
    /\ UNCHANGED <<svars, feedback, vOp>>

\* parseVoiceCommand resolved: onUpdate(updates), handleVoiceUpdate of the
\* render that started the request
ProcessResolved(result) ==
    /\ parsing.active
    /\ feedback' = result.feedback
    /\ rows' = ApplyAll(parsing.rows, result.action, result.rowUpdates)
    /\ saved' = Save(ApplyAll(parsing.rows, result.action, result.rowUpdates))
    /\ vOp' = [op |-> "handleVoiceUpdate", pre |-> parsing.rows, result |-> result]
    /\ parsing' = NoProcess
    /\ tOp' = TOp("resolved", result)
    /\ UNCHANGED <<language, activeWorkflow, currentStepIndex, isListening,
                   transcript, refClosure, capturing, crashed, speaking, sOp, told>>

\* parseVoiceCommand rejected: setStatus(AppStatus.ERROR)
ProcessFailed ==
    /\ parsing.active
    /\ parsing' = NoProcess
    /\ tOp' = TOp("failed", Null)
    /\ UNCHANGED <<svars, feedback, vOp>>

\* a cell input changed; the inputs stay focusable while a command is parsed
handleManualCellChange(rowIndex, colId, val) ==
    /\ rows' = SetRow(rows, rowIndex, WithCell(RowAt(rows, rowIndex), colId, val))
    /\ saved' = Save(SetRow(rows, rowIndex, WithCell(RowAt(rows, rowIndex), colId, val)))
    /\ tOp' = TOp("manual", <<rowIndex, colId, val>>)
    /\ UNCHANGED <<language, activeWorkflow, currentStepIndex, isListening,
                   transcript, refClosure, capturing, crashed, speaking, sOp, told,
                   feedback, vOp, parsing>>

\* the click on the add-row area: setCurrentTable with one more empty row
AddRow ==
    /\ ~parsing.active
    /\ Len(rows) <= MaxRows
    /\ rows' = Append(rows, [c \in Range(TableColumns) |-> <<>>])
    /\ tOp' = TOp("addRow", Null)
    /\ UNCHANGED <<language, activeWorkflow, currentStepIndex, isListening,
                   transcript, refClosure, capturing, crashed, speaking, saved, sOp,
                   told, feedback, vOp, parsing>>

\* handleGuidedValue(rowIndex, colId, val) of the render on screen
handleGuidedValue(rowIndex, colId, val) ==
    /\ rows' = GuidedWrite(rows, rowIndex, colId, val)
    /\ saved' = Save(GuidedWrite(rows, rowIndex, colId, val))
    /\ tOp' = TOp("handleGuidedValue", [row |-> rowIndex, col |-> colId, value |-> val])
    /\ UNCHANGED <<language, activeWorkflow, currentStepIndex, isListening,
                   transcript, refClosure, capturing, crashed, speaking, sOp, told,
                   feedback, vOp, parsing>>

\* guided writes to rows of the table and past its end, to columns of the
\* table and to a column the table does not have
GuidedWriteEvent ==
    \E rowIndex \in 0..MaxRows, colId \in Range(TableColumns) \cup {"cX"} :
        handleGuidedValue(rowIndex, colId, <<"7">>)

TableEvent ==
    \/ StartProcess
    \/ \E result \in ProcessResults : ProcessResolved(result)
    \/ ProcessFailed
    \/ \E rowIndex \in 0..(Len(rows) - 1), colId \in Range(TableColumns),
          val \in ({ <<"m">> }) : handleManualCellChange(rowIndex, colId, val)
    \/ AddRow

(***************************************************************************)
(* VoiceControl: the listening cycles of the voice control outside a       *)
(* guided session, and the status they share with App.                     *)
(***************************************************************************)
VARIABLES
    status,            \* App: useState<AppStatus>(AppStatus.IDLE)
    vcListening,       \* VoiceControl: useState(false), isListening
    vcTranscript,      \* VoiceControl: useState(''), transcript
    timers,            \* armed setTimeout(() => setStatus(AppStatus.IDLE)) calls
    mOp                \* history: the last event of the voice control

mvars == <<status, vcListening, vcTranscript, timers, mOp>>

InitControl ==
    /\ status = "IDLE"
    /\ vcListening = FALSE
    /\ vcTranscript = <<>>
    /\ timers = 0
    /\ mOp = [op |-> "init", text |-> <<>>]

\* the mic button (disabled while status is PROCESSING) starts the recognizer:
\* recognition.onstart
ControlOnStart ==
    /\ ~vcListening
    /\ status # "PROCESSING"
    /\ vcListening' = TRUE
    /\ status' = "LISTENING"
    /\ vcTranscript' = <<>>
    /\ mOp' = [op |-> "onstart", text |-> <<>>]
    /\ UNCHANGED <<svars, avars, tvars, timers>>

\* recognition.onresult
ControlOnResult(text) ==
    /\ vcListening
    /\ vcTranscript' = text
    /\ mOp' = [op |-> "onresult", text |-> text]
    /\ UNCHANGED <<svars, avars, tvars, status, vcListening, timers>>

\* recognition.onerror
ControlOnError ==
    /\ vcListening
    /\ vcListening' = FALSE
    /\ status' = "ERROR"
    /\ mOp' = [op |-> "onerror", text |-> vcTranscript]
    /\ UNCHANGED <<svars, avars, tvars, vcTranscript, timers>>

\* recognition.onend: setIsListening(false), and the processing effect of the
\* render that follows: process() when there is a transcript and status is
\* LISTENING, setStatus(IDLE) when there is none and status is LISTENING.
\* One request is followed at a time.
ControlOnEnd ==
    /\ vcListening
    /\ vcListening' = FALSE
    /\ mOp' = [op |-> "onend", text |-> vcTranscript]
    /\ IF vcTranscript # <<>> /\ status = "LISTENING"
       THEN /\ ~parsing.active
            /\ status' = "PROCESSING"
            /\ parsing' = [active |-> TRUE, rows |-> rows]
            /\ tOp' = TOp("process", vcTranscript)
       ELSE /\ status' = IF status = "LISTENING" THEN "IDLE" ELSE status
            /\ UNCHANGED tvars
    /\ UNCHANGED <<svars, avars, vcTranscript, timers>>

\* process() after parseVoiceCommand resolved: onUpdate(updates),
\* setStatus(SUCCESS), setTranscript(''), setTimeout(..., 2000)
ParseResolved(result) ==
    /\ ProcessResolved(result)
    /\ status' = "SUCCESS"
    /\ vcTranscript' = <<>>
    /\ timers' = timers + 1
    /\ mOp' = [op |-> "resolved", text |-> vcTranscript]
    /\ UNCHANGED vcListening

\* process() after parseVoiceCommand rejected: setStatus(ERROR),
\* setTimeout(..., 3000)
ParseRejected ==
    /\ ProcessFailed
    /\ status' = "ERROR"
    /\ timers' = timers + 1
    /\ mOp' = [op |-> "rejected", text |-> vcTranscript]
    /\ UNCHANGED <<vcListening, vcTranscript>>

\* a timer fires: setStatus(AppStatus.IDLE), which also calls setFeedback(null)
StatusTimer ==
    /\ timers > 0
    /\ timers' = timers - 1
    /\ status' = "IDLE"
    /\ feedback' = Null
    /\ mOp' = [op |-> "timer", text |-> vcTranscript]
    /\ UNCHANGED <<svars, vOp, tvars, vcListening, vcTranscript>>

ControlEvent ==
    \/ ControlOnStart
    \/ \E text \in { <<"a", "d", "d">>, <<"s", "e", "t">> } : ControlOnResult(text)
    \/ ControlOnError
    \/ ControlOnEnd
    \/ \E result \in ProcessResults : ParseResolved(result)
    \/ ParseRejected
    \/ StatusTimer

(***************************************************************************)
(* services/fileService: parseCSV, and the import of a CSV file by App.    *)
(***************************************************************************)
VARIABLES
    csvContent,        \* the text of the file the reader has read
    csvTable           \* the result of parseCSV on it

cvars == <<csvContent, csvTable>>

\* data lines of a file
MaxCsvRows == 2

\* text.split(sep) for a separator of one character
RECURSIVE SplitOn(_, _)
SplitOn(text, sep) ==
    IF \E i \in 1..Len(text) : text[i] = sep
    THEN LET i == SetMin({k \in 1..Len(text) : text[k] = sep})
         IN  <<SubSeq(text, 1, i - 1)>> \o SplitOn(SubSeq(text, i + 1, Len(text)), sep)
    ELSE <<text>>

\* lines.filter(line => line.trim() !== '')
RECURSIVE NonBlank(_)
NonBlank(lines) ==
    IF lines = <<>> THEN <<>>
    ELSE (IF Trim(Head(lines)) # <<>> THEN <<Head(lines)>> ELSE <<>>)
            \o NonBlank(Tail(lines))

\* line.split(',').map(v => v.trim().replace(/^"|"$/g, '')): a quote at the
\* start and a quote at the end of a trimmed part go
ValuesOf(line) ==
    LET parts == SplitOn(line, ",")
        StripQuotes(v) ==
            LET lead == IF v # <<>> /\ Head(v) = "\"" THEN Tail(v) ELSE v
            IN  IF Len(v) >= 2 /\ v[Len(v)] = "\""
                THEN SubSeq(lead, 1, Len(lead) - 1)
                ELSE lead
    IN  [i \in 1..Len(parts) |-> StripQuotes(Trim(parts[i]))]

\* !isNaN(numVal) && isFinite(numVal) && String(numVal) === val, where
\* numVal = parseFloat(val). parseFloat reads a prefix of val: a sign, digits
\* and a fraction (the texts have no exponent), and gives NaN when the prefix
\* has no digit. String(numVal) is the integer part without leading zeros, the
\* fraction without trailing zeros, and no sign on zero.
IsCanonicalNumber(val) ==
    LET j == IF val # <<>> /\ val[1] \in {"-", "+"} THEN 2 ELSE 1
        d == DigitRunLen(val, j)
        k == j + d
        hasDot == k <= Len(val) /\ val[k] = "."
        f == IF hasDot THEN DigitRunLen(val, k + 1) ELSE 0
        intDigits == IF d = 0 THEN <<"0">> ELSE SubSeq(val, j, k - 1)
        fracDigits == SubSeq(val, k + 1, k + f)
        lead == SetMin({i \in 1..Len(intDigits) :
                            intDigits[i] # "0" \/ i = Len(intDigits)})
        int == SubSeq(intDigits, lead, Len(intDigits))
        last == SetMax({0} \cup {i \in 1..f : fracDigits[i] # "0"})
        frac == SubSeq(fracDigits, 1, last)
        zero == int = <<"0">> /\ frac = <<>>
        text == (IF val[1] = "-" /\ ~zero THEN <<"-">> ELSE <<>>)
                    \o int \o (IF frac = <<>> THEN <<>> ELSE <<".">> \o frac)
    IN  /\ d + f > 0
        /\ text = val

\* values[idx] || ""
ValueAt(values, idx) == IF idx < Len(values) THEN values[idx + 1] ELSE <<>>

\* the error parseCSV throws
EmptyFile == [error |-> "Empty file"]

NoTable == [error |-> "none"]

\* if (col.type === 'text') col.type = 'number', run for every row whose value
\* is a number: the type of the returned column is number if some row has one
IsUpgraded(dataLines, idx) ==
    \E r \in 1..Len(dataLines) :
        IsCanonicalNumber(ValueAt(ValuesOf(dataLines[r]), idx))

\* parseCSV(content, fileName): columns and rows of the table
ParseCSV(content) ==
    LET lines == NonBlank(SplitOn(content, "LF"))
        headers == ValuesOf(lines[1])
        dataLines == Tail(lines)
        ids == {<<"col", idx>> : idx \in 0..(Len(headers) - 1)}
    IN  IF lines = <<>> THEN EmptyFile
        ELSE [error |-> "",
              columns |->
                 [k \in 1..Len(headers) |->
                     [id |-> <<"col", k - 1>>,
                      label |-> IF headers[k] # <<>> THEN headers[k]
                                ELSE <<"Column", k>>,
                      type |-> IF IsUpgraded(dataLines, k - 1) THEN "number"
                               ELSE "text"]],
              rows |->
                 [r \in 1..Len(dataLines) |->
                     [id \in ids |->
                         LET val == ValueAt(ValuesOf(dataLines[r]), id[2])
                         IN  IF IsCanonicalNumber(val) THEN [number |-> val]
                             ELSE [text |-> val]]]]

RECURSIVE JoinWith(_, _)
\* the texts of parts with sep between them
JoinWith(parts, sep) ==
    IF parts = <<>> THEN <<>>
    ELSE IF Len(parts) = 1 THEN parts[1]
    ELSE parts[1] \o <<sep>> \o JoinWith(Tail(parts), sep)

\* a header line of two columns, then data lines of two cells
CsvContents ==
    { JoinWith(<< <<"h", ",", "k">> >> \o [r \in 1..Len(grid) |-> JoinWith(grid[r], ",")], "LF") :
        grid \in SeqsUpTo([1..2 -> { <<>>, <<"7">>, <<"x">>, <<"0", "7">>,
                                     <<"1", ".", "5">> }],
                          MaxCsvRows) }
    \cup { <<>> }

InitCsv ==
    /\ csvContent = <<>>
    /\ csvTable = NoTable

\* reader.onload of handleFileUpload: parseCSV, setCurrentTable(table); an
\* empty file makes parseCSV throw and nothing is set
CsvLoaded ==
    /\ csvTable = NoTable
    /\ csvTable' = ParseCSV(csvContent)
    /\ rows' = IF ParseCSV(csvContent) = EmptyFile THEN rows
               ELSE ParseCSV(csvContent).rows
    /\ UNCHANGED <<language, activeWorkflow, currentStepIndex, isListening,
                   transcript, refClosure, capturing, crashed, speaking, saved, sOp,
                   told, csvContent>>

\* the wizard is not open while a session is studied, and the other way round
WizardClosed ==
    /\ plan = NoPlan
    /\ selectedIndices = {}
    /\ draggedIdx = NoIdx
    /\ editingStepId = NoId
    /\ editInstruction = ""
    /\ editRowIndex = <<>>
    /\ editColumnId = ""
    /\ loading = FALSE
    /\ pending = 0
    /\ lastOp = NoOp

SessionClosed ==
    /\ language = "en"
    /\ activeWorkflow = NoPlan
    /\ rows = <<>>
    /\ currentStepIndex = 0
    /\ isListening = FALSE
    /\ transcript = <<>>
    /\ refClosure = Closure(0, <<>>, <<>>, NoPlan)
    /\ capturing = NoRec
    /\ crashed = FALSE
    /\ speaking = FALSE
    /\ saved = NoSave
    /\ sOp = [op |-> "init", text |-> <<>>, idx |-> 0, plan |-> NoPlan,
              cur |-> 0, rows |-> <<>>, mounted |-> FALSE, kind |-> "none",
              wrote |-> NoWrite, heard |-> <<>>]
    /\ told = 0

vars == <<wvars, svars, avars, tvars, cvars, mvars>>

NextStructure == Running /\ StructureEvent /\ UNCHANGED <<svars, avars, tvars, cvars, mvars>>

NextDrag == Running /\ DragEvent /\ UNCHANGED <<svars, avars, tvars, cvars, mvars>>

NextEdit == Running /\ EditEvent /\ UNCHANGED <<svars, avars, tvars, cvars, mvars>>

\* selection against (re)generation and the handlers that clear it
SelectionEvent ==
    \/ GenerateEvent
    \/ \E index \in Positions : toggleSelection(index)
    \/ \E now \in Times, rnd \in [1..Cardinality(selectedIndices) -> RandomValues] :
          duplicateSelected(now, rnd)
    \/ deleteSelected
    \/ \E index \in Positions : deleteStep(index)

NextSelection == Running /\ SelectionEvent /\ UNCHANGED <<svars, avars, tvars, cvars, mvars>>

\* drag and drop against the deletion of steps: draggedIdx is not cleared when
\* a drag ends without a drop on a step
DragDeleteEvent ==
    \/ DragEvent
    \/ \E index \in Positions : deleteStep(index)

NextDragDelete == Running /\ DragDeleteEvent /\ UNCHANGED <<svars, avars, tvars, cvars, mvars>>

\* handlers of the editor in one sitting
MaxWizardOps == 3

\* every handler of the editor: generation, selection, the structural edits,
\* drag and drop, and the edit form opened and saved
WizardEvent ==
    \/ GenerateEvent
    \/ \E index \in Positions : toggleSelection(index)
    \/ \E rnd \in [1..Cardinality(selectedIndices) -> {1}] : duplicateSelected(1, rnd)
    \/ deleteSelected
    \/ \E index \in Positions : deleteStep(index)
    \/ addNewStep(1)
    \/ DragEvent
    \/ \E idx \in Positions : startEditing(idx, 1)
    \/ \E index \in Positions : saveStepEdit(index)

NextWizard ==
    Renders /\ lastOp.n < MaxWizardOps /\ WizardEvent
        /\ UNCHANGED <<svars, avars, tvars, cvars, mvars>>

NextSession == SessionEvent /\ UNCHANGED <<wvars, avars, tvars, cvars, mvars>>

NextVoice == VoiceEvent /\ UNCHANGED <<wvars, tvars, cvars, mvars>>

NextTable == tOp.n < MaxTableOps /\ TableEvent /\ UNCHANGED <<wvars, cvars, mvars>>

NextGuidedWrite ==
    tOp.n < MaxTableOps /\ GuidedWriteEvent /\ UNCHANGED <<wvars, cvars, mvars>>

NextImport == CsvLoaded /\ UNCHANGED <<wvars, avars, tvars, mvars>>

NextControl == tOp.n < MaxTableOps /\ ControlEvent /\ UNCHANGED <<wvars, cvars>>

\* the editor is open and no guided session is mounted
InitEditor ==
    InitWizard /\ SessionClosed /\ InitVoice /\ InitProcess /\ InitCsv /\ InitControl

\* a guided session is mounted and the editor is closed
InitGuided ==
    WizardClosed /\ InitSession /\ InitVoice /\ InitProcess /\ InitCsv /\ InitControl

\* a table is open and a voice command is about to be applied
InitTable ==
    WizardClosed /\ TableOpen /\ InitVoice /\ InitProcess /\ InitCsv /\ InitControl

\* a CSV file has been read and is about to be parsed
InitImport ==
    /\ WizardClosed /\ SessionClosed /\ InitVoice /\ InitProcess /\ InitControl
    /\ csvContent \in CsvContents
    /\ csvTable = NoTable

\* the editor opened on any saved pipeline; selection, duplicate, delete, add
SpecStructure == InitEditor /\ [][NextStructure]_vars

\* the editor opened on any saved pipeline; drag and drop
SpecDrag == InitEditor /\ [][NextDrag]_vars

\* the editor opened on any saved pipeline; the edit form
SpecEdit == InitEditor /\ [][NextEdit]_vars

\* the editor opened on any saved pipeline; drag and drop, and deletion
SpecDragDelete == InitEditor /\ [][NextDragDelete]_vars

\* the editor opened on any saved pipeline or on none; (re)generation
SpecSelection == InitEditor /\ [][NextSelection]_vars

\* the editor opened on any saved pipeline or on none; every handler
SpecWizard == InitEditor /\ [][NextWizard]_vars

\* a guided session from its start, with every interleaving of the buttons
\* and the recognizer's events
SpecSession == InitGuided /\ [][NextSession]_vars

\* one voice command applied to a table
SpecVoice == InitTable /\ [][NextVoice]_vars

\* the open table edited by hand while voice commands are parsed
SpecTable == InitTable /\ [][NextTable]_vars

\* handleGuidedValue applied to any table
SpecGuidedWrite == InitTable /\ [][NextGuidedWrite]_vars

\* the listening cycles of the voice control on an open table
SpecControl == InitTable /\ [][NextControl]_vars

\* the import of one CSV file
SpecImport == InitImport /\ [][NextImport]_vars

(***************************************************************************)
(* Properties of the pipeline editor.                                      *)
(***************************************************************************)
\* the state duplicateSelected, deleteSelected, onDrop or saveStepEdit saw
PreSteps == lastOp.pre.steps

PreRows == {PreSteps[i + 1].targetRowIndex : i \in lastOp.sel}

PreSpan == (SetMax(PreRows) - SetMin(PreRows)) + 1

\* C1: after duplicateSelected every appended duplicate targets the row of its
\* original plus offset, where offset = (maxRow - minRow) + 1 over the rows of
\* the selected steps only; the offset is 1, never 0, when they share one row.
C1_DuplicateOffsetLaw ==
    lastOp.op = "duplicateSelected" =>
        LET indices == SortAsc(lastOp.sel)
            n == Len(PreSteps)
        IN  /\ PreSpan >= 1
            /\ Cardinality(PreRows) = 1 => PreSpan = 1
            /\ Len(plan.steps) = n + Len(indices)
            /\ \A k \in 1..Len(indices) :
                  plan.steps[n + k].targetRowIndex =
                      PreSteps[indices[k] + 1].targetRowIndex + PreSpan

\* a block of several steps spanning more than one row has been duplicated
C1_Witness ==
    /\ lastOp.op = "duplicateSelected"
    /\ Cardinality(lastOp.sel) >= 2
    /\ Cardinality(lastOp.sel) < Len(PreSteps)
    /\ PreSpan >= 3

\* C2: duplicateSelected with k selected positions on n steps yields n + k
\* steps: the n original steps unchanged and in order, then the duplicates of
\* the selected steps in ascending order of position, each with its original's
\* instruction, targetColumnId and expectedType.
C2_DuplicatesAppendedInOrder ==
    lastOp.op = "duplicateSelected" =>
        LET indices == SortAsc(lastOp.sel)
            n == Len(PreSteps)
            k == Cardinality(lastOp.sel)
        IN  /\ Len(plan.steps) = n + k
            /\ SubSeq(plan.steps, 1, n) = PreSteps
            /\ \A j \in 1..k :
                  LET dup == plan.steps[n + j]
                      orig == PreSteps[indices[j] + 1]
                  IN  /\ dup.instruction = orig.instruction
                      /\ dup.targetColumnId = orig.targetColumnId
                      /\ dup.expectedType = orig.expectedType

\* two steps that are not the last ones, and differ, have been duplicated
C2_Witness ==
    /\ lastOp.op = "duplicateSelected"
    /\ Cardinality(lastOp.sel) = 2
    /\ Len(PreSteps) - 1 \notin lastOp.sel
    /\ \A i, j \in lastOp.sel :
          i # j => PreSteps[i + 1].instruction # PreSteps[j + 1].instruction

\* C3: after moving the step at i to j (onDrop with draggedIdx = i and
\* dropIndex = j, both valid), moving the step at j to i restores exactly the
\* sequence there was before the first move.
C3_ReorderRoundTrip ==
    (lastOp.op = "onDrop" /\ lastOp.idx < Len(PreSteps) /\ lastOp.arg < Len(PreSteps)) =>
        Reorder(plan.steps, lastOp.arg, lastOp.idx) = PreSteps

\* a step has been dragged over at least two others, and the order changed
C3_Witness ==
    /\ lastOp.op = "onDrop"
    /\ lastOp.arg - lastOp.idx >= 2
    /\ plan.steps # PreSteps

\* C4: deleteSelected leaves exactly the steps whose position before the
\* operation is not selected, in their original relative order.
C4_DeleteSelectedByPosition ==
    lastOp.op = "deleteSelected" =>
        LET kept == SortAsc((0..(Len(PreSteps) - 1)) \ lastOp.sel)
        IN  /\ Len(plan.steps) = Len(kept)
            /\ \A k \in 1..Len(kept) : plan.steps[k] = PreSteps[kept[k] + 1]

\* positions 1 and 3 of a 4-step pipeline have been deleted
C4_Witness ==
    /\ lastOp.op = "deleteSelected"
    /\ Len(PreSteps) = 4
    /\ lastOp.sel = {1, 3}
    /\ plan.steps = <<PreSteps[1], PreSteps[3]>>

\* the text is an optional minus sign followed by decimal digits only
IsIntegerText(t) ==
    LET body == IF t # <<>> /\ Head(t) = "-" THEN Tail(t) ELSE t
    IN  body # <<>> /\ \A i \in 1..Len(body) : body[i] \in DigitChars

RECURSIVE Pow10(_)
Pow10(n) == IF n = 0 THEN 1 ELSE 10 * Pow10(n - 1)

\* the number an unsigned run of digits denotes
RECURSIVE DecimalValue(_)
DecimalValue(d) ==
    IF d = <<>> THEN 0
    ELSE DigitVal(Head(d)) * Pow10(Len(d) - 1) + DecimalValue(Tail(d))

IsNegativeText(t) == t # <<>> /\ Head(t) = "-"

\* the text holds no digit at all
IsNonNumericText(t) == \A i \in 1..Len(t) : t[i] \notin DigitChars

\* C5: saveStepEdit stores targetRowIndex = n - 1 when the displayed row text
\* is an integer n >= 1, and 0 when the text is "0", negative or non-numeric;
\* the stored targetRowIndex is never negative.
C5_RowEditOneBased ==
    lastOp.op = "saveStepEdit" =>
        LET t == lastOp.arg
            stored == plan.steps[lastOp.idx + 1].targetRowIndex
        IN  /\ stored >= 0
            /\ (IsIntegerText(t) /\ ~IsNegativeText(t) /\ DecimalValue(t) >= 1)
                  => stored = DecimalValue(t) - 1
            /\ (t = <<"0">> \/ IsNegativeText(t) \/ IsNonNumericText(t))
                  => stored = 0

\* a row text typed by the user, "0" or negative, has been saved over a step
\* that targeted a later row
C5_Witness ==
    /\ lastOp.op = "saveStepEdit"
    /\ lastOp.arg \in {<<"0">>, <<"-", "2">>}
    /\ PreSteps[lastOp.idx + 1].targetRowIndex >= 1
    /\ plan.steps[lastOp.idx + 1].targetRowIndex = 0

(***************************************************************************)
(* Properties of the guided session.                                       *)
(***************************************************************************)
\* the last handler was a call of handleResult (recognizer's onend, or Enter)
ResultHandled == sOp.op \in {"onend", "enter"}

HasStopWord(text) == \E w \in StopWords(language) : Includes(CleanText(text), w)

HasSkipWord(text) == \E w \in NextWords(language) : Includes(CleanText(text), w)

\* neither empty nor a command
IsValueText(text) ==
    CleanText(text) # <<>> /\ ~HasStopWord(text) /\ ~HasSkipWord(text)

\* the step under the cursor when the last handler ran
StepAtCursor == sOp.plan.steps[sOp.cur + 1]

\* the cursor moved on by one step, or the session ended on the last step
AdvancedByOne ==
    IF sOp.cur + 1 < Len(sOp.plan.steps)
    THEN activeWorkflow # NoPlan /\ currentStepIndex = sOp.cur + 1
    ELSE activeWorkflow = NoPlan

\* C6: when the lower-cased, trimmed utterance contains a stop word of the
\* active language, handleResult ends the session and there is no table write
\* and no cursor advance, also if the utterance holds a skip word or a number.
C6_StopWordWins ==
    (ResultHandled /\ HasStopWord(sOp.text)) =>
        /\ activeWorkflow = NoPlan
        /\ sOp.wrote = NoWrite
        /\ rows = sOp.rows
        /\ currentStepIndex = sOp.cur

\* an utterance with a stop word, a skip word and a number was handled while
\* the session was running on a step that had a next step
C6_Witness ==
    /\ ResultHandled
    /\ sOp.mounted
    /\ sOp.text = <<"n", "e", "x", "t", " ", "s", "t", "o", "p", " ", "4">>
    /\ HasSkipWord(sOp.text)
    /\ sOp.cur + 1 < Len(sOp.plan.steps)
    /\ activeWorkflow = NoPlan

\* a comma between two digits becomes a period
DecimalCommasToPeriods(text) ==
    [i \in 1..Len(text) |->
        IF /\ text[i] = ","
           /\ i > 1 /\ text[i - 1] \in DigitChars
           /\ i < Len(text) /\ text[i + 1] \in DigitChars
        THEN "." ELSE text[i]]

\* the value a number step is to receive from an utterance
NumberOf(text) ==
    LET number == FirstNumber(DecimalCommasToPeriods(CleanText(text)))
    IN  IF number # <<>> THEN number ELSE CleanText(text)

\* C7: for a step of expectedType number and a non-command utterance, the
\* written value is the first signed-decimal substring of the utterance after
\* its comma decimal separators were replaced by periods, or the normalized
\* utterance when it holds no number; in both cases the cursor advances.
C7_NumericNormalization ==
    (/\ ResultHandled
     /\ sOp.mounted
     /\ IsValueText(sOp.text)
     /\ sOp.plan.steps[sOp.idx + 1].expectedType = "number") =>
        /\ sOp.wrote # NoWrite
        /\ sOp.wrote.value = NumberOf(sOp.text)
        /\ (activeWorkflow = NoPlan \/ currentStepIndex = sOp.cur + 1)

\* the cell a step targets, <<>> when the table has no such cell
CellOf(rs, step) ==
    IF RowAt(rs, step.targetRowIndex) = Hole THEN <<>>
    ELSE IF step.targetColumnId \in DOMAIN RowAt(rs, step.targetRowIndex)
    THEN RowAt(rs, step.targetRowIndex)[step.targetColumnId]
    ELSE <<>>

ValueOf(text, step) ==
    IF step.expectedType = "number" THEN NumberOf(text) ELSE CleanText(text)

\* every cell of before, that of step excepted, is the same in after
OtherCellsKept(before, after, step) ==
    \A i \in 1..Len(before) :
        before[i] # Hole =>
            /\ i <= Len(after)
            /\ after[i] # Hole
            /\ \A c \in DOMAIN before[i] :
                  (i - 1 = step.targetRowIndex /\ c = step.targetColumnId)
                  \/ (c \in DOMAIN after[i] /\ after[i][c] = before[i][c])

\* C8: a session that is told one value per step by voice, and nothing else:
\* after the i-th utterance the cell of step i holds its normalized value,
\* what the table held before is still there, and the session is over exactly
\* after the last step's utterance.
C8_EndToEndSession ==
    (sOp.op = "onend" /\ told >= 1) =>
        LET step == sOp.plan.steps[told]
        IN  /\ CellOf(rows, step) = ValueOf(sOp.heard, step)
            /\ OtherCellsKept(sOp.rows, rows, step)
            /\ (activeWorkflow = NoPlan) <=> (told = Len(sOp.plan.steps))

\* C9: for a non-empty utterance with neither a stop nor a skip word
\* handleResult emits one write command whose row and column are those of the
\* step at the session's cursor, then advances the cursor by one step or
\* finishes on the last step.
C9_ValueWritesCurrentStep ==
    (ResultHandled /\ sOp.mounted /\ IsValueText(sOp.text)) =>
        /\ sOp.wrote # NoWrite
        /\ sOp.wrote.row = StepAtCursor.targetRowIndex
        /\ sOp.wrote.col = StepAtCursor.targetColumnId
        /\ AdvancedByOne

\* C10: an utterance with a skip word and no stop word, and the Skip button,
\* advance the cursor by exactly one step, or finish on the last step, and
\* leave the table unchanged.
C10_SkipAdvancesWithoutWrite ==
    (/\ sOp.mounted
     /\ \/ sOp.op = "skip"
        \/ ResultHandled /\ HasSkipWord(sOp.text) /\ ~HasStopWord(sOp.text)) =>
        /\ sOp.wrote = NoWrite
        /\ rows = sOp.rows
        /\ AdvancedByOne

\* C11: each processed value or skip event at cursor c moves the cursor to
\* c + 1 when c + 1 < n and finishes the session otherwise, so that a session
\* is finished by such an event on its last step only.
C11_AdvanceAndCompletion ==
    (sOp.mounted /\ sOp.kind \in {"skip", "value"}) =>
        /\ AdvancedByOne
        /\ ~crashed
        /\ (activeWorkflow = NoPlan) => (sOp.cur = Len(sOp.plan.steps) - 1)

\* nothing but white space
IsBlank(text) == \A i \in 1..Len(text) : IsWhite(text[i])

\* C12: a recognized or confirmed text that is empty or white space only
\* changes nothing: no write, no cursor advance, no termination.
C12_EmptyUtteranceGuard ==
    (ResultHandled /\ IsBlank(sOp.text)) =>
        /\ sOp.wrote = NoWrite
        /\ rows = sOp.rows
        /\ currentStepIndex = sOp.cur
        /\ sOp.mounted => (activeWorkflow = sOp.plan /\ ~crashed)

\* a text of one space was confirmed in a running session, which goes on
C12_Witness ==
    /\ ResultHandled
    /\ sOp.mounted
    /\ sOp.text = <<" ">>
    /\ activeWorkflow # NoPlan

\* C13: under every interleaving of the mic, the recognizer's callbacks and
\* the buttons, every processed event acts on the step that is current when it
\* is processed, in a session that is still running: no result of a cycle
\* started on step k is applied after the cursor has left step k.
C13_SequentialAdvancement ==
    (sOp.op \in {"onend", "enter", "skip"} /\ sOp.kind \in {"skip", "value"}) =>
        /\ sOp.mounted
        /\ sOp.idx = sOp.cur

\* C14: the close action tears the session down at once: the recognition in
\* progress is stopped and the speech in progress is cancelled.
C14_CloseTearsDown ==
    sOp.op = "close" =>
        /\ activeWorkflow = NoPlan
        /\ capturing = NoRec
        /\ ~speaking

\* C15: a running session ends only by a stop command, by the close action or
\* by a value or skip event on its last step; no other utterance ends it.
C15_EndsOnlyByStopCompletionClose ==
    (sOp.mounted /\ activeWorkflow = NoPlan) =>
        \/ sOp.op = "close"
        \/ ResultHandled /\ sOp.kind = "stop" /\ HasStopWord(sOp.text)
        \/ sOp.kind \in {"skip", "value"} /\ sOp.cur = Len(sOp.plan.steps) - 1

\* a text with no number in it was handled on a number step that has a next
\* step: it was written as it is and the session goes on
C15_Witness ==
    /\ ResultHandled
    /\ sOp.mounted
    /\ sOp.text = <<"s", "e", "v", "e", "n">>
    /\ sOp.plan.steps[sOp.idx + 1].expectedType = "number"
    /\ sOp.cur + 1 < Len(sOp.plan.steps)
    /\ sOp.wrote # NoWrite
    /\ sOp.wrote.value = <<"s", "e", "v", "e", "n">>
    /\ activeWorkflow # NoPlan

\* C16: the ids of the steps of the pipeline are pairwise different in every
\* state the editor reaches: an id made by duplicateSelected or addNewStep
\* equals no id already in the pipeline and no id made by the same operation.
C16_StepIdsUnique ==
    plan # NoPlan =>
        \A i, j \in 1..Len(plan.steps) :
            plan.steps[i].id = plan.steps[j].id => i = j

\* C17: after deleteStep, duplicateSelected, deleteSelected and a successful
\* (re)generation the multi-selection is empty, whatever it was before.
C17_SelectionCleared ==
    lastOp.op \in {"deleteStep", "duplicateSelected", "deleteSelected", "generated"} =>
        selectedIndices = {}

\* a regeneration resolved over a selection made while it was in flight
C17_Witness ==
    /\ lastOp.op = "generated"
    /\ lastOp.pre # NoPlan
    /\ lastOp.sel # {}
    /\ plan = lastOp.arg

(***************************************************************************)
(* Properties of the voice-command result applied to the table.            *)
(***************************************************************************)
VoiceHandled == vOp.op = "handleVoiceUpdate"

\* the entries of the result that ask for a new row: rowIndex -1, or any
\* entry when the action is append
AppendPositions ==
    {i \in 1..Len(vOp.result.rowUpdates) :
        vOp.result.rowUpdates[i].rowIndex = -1 \/ vOp.result.action = "append"}

\* the table when entry i of the batch is reached, and once it is applied
TableBefore(i) ==
    ApplyAll(vOp.pre, vOp.result.action, SubSeq(vOp.result.rowUpdates, 1, i - 1))

TableAfter(i) ==
    ApplyAll(vOp.pre, vOp.result.action, SubSeq(vOp.result.rowUpdates, 1, i))

\* the batch without its entry i
BatchWithout(i) ==
    SubSeq(vOp.result.rowUpdates, 1, i - 1)
        \o SubSeq(vOp.result.rowUpdates, i + 1, Len(vOp.result.rowUpdates))

\* C18: every entry with rowIndex -1, and every entry of a result whose action
\* is append whatever its rowIndex, appends exactly one row built from its
\* updates at the end of the table and changes no existing row; the row count
\* grows by the number of such entries.
C18_AppendSemantics ==
    VoiceHandled =>
        /\ Len(rows) = Len(vOp.pre) + Cardinality(AppendPositions)
        /\ \A i \in AppendPositions :
              /\ TableAfter(i) = Append(TableBefore(i), vOp.result.rowUpdates[i].updates)
        /\ (AppendPositions = 1..Len(vOp.result.rowUpdates)) =>
              rows = vOp.pre \o [i \in 1..Len(vOp.result.rowUpdates) |->
                                    vOp.result.rowUpdates[i].updates]

\* a result of action append whose entries name existing rows has appended
\* them all and left the rows of the table as they were
C18_Witness ==
    /\ VoiceHandled
    /\ vOp.result.action = "append"
    /\ Len(vOp.pre) = 2
    /\ Len(vOp.result.rowUpdates) = 2
    /\ \A i \in 1..2 : vOp.result.rowUpdates[i].rowIndex \in {0, 1}
    /\ Len(rows) = 4
    /\ SubSeq(rows, 1, 2) = vOp.pre

\* C19: a non-append entry with 0 <= rowIndex < row count leaves in the row at
\* rowIndex its value for every column of updates and the previous value for
\* every other column; no other row changes and the row count is unchanged.
C19_MergeSemantics ==
    VoiceHandled =>
        /\ TableAfter(Len(vOp.result.rowUpdates)) = rows
        /\ \A i \in (1..Len(vOp.result.rowUpdates)) \ AppendPositions :
              LET e == vOp.result.rowUpdates[i]
                  before == TableBefore(i)
                  after == TableAfter(i)
              IN  (e.rowIndex >= 0 /\ e.rowIndex < Len(before)) =>
                    /\ Len(after) = Len(before)
                    /\ \A k \in 1..Len(before) : k # e.rowIndex + 1 => after[k] = before[k]
                    /\ DOMAIN after[e.rowIndex + 1] =
                          (DOMAIN before[e.rowIndex + 1]) \cup (DOMAIN e.updates)
                    /\ \A c \in DOMAIN e.updates : after[e.rowIndex + 1][c] = e.updates[c]
                    /\ \A c \in (DOMAIN before[e.rowIndex + 1]) \ (DOMAIN e.updates) :
                          after[e.rowIndex + 1][c] = before[e.rowIndex + 1][c]

\* one entry was merged into the second row of a table of two rows: the column
\* it names changed, the other column and the first row did not
C19_Witness ==
    /\ VoiceHandled
    /\ vOp.result.action = "update"
    /\ Len(vOp.pre) = 2
    /\ vOp.result.rowUpdates = <<[rowIndex |-> 1, updates |-> [c0 |-> <<"x">>]]>>
    /\ Len(rows) = 2
    /\ rows[1] = vOp.pre[1]
    /\ rows[2].c0 = <<"x">>
    /\ rows[2].c1 = vOp.pre[2].c1
    /\ vOp.pre[2].c0 # <<"x">>

\* the non-append entries whose rowIndex is at or past the row count they meet
DroppedPositions ==
    {i \in (1..Len(vOp.result.rowUpdates)) \ AppendPositions :
        vOp.result.rowUpdates[i].rowIndex >= Len(TableBefore(i))}

\* C20: a non-append entry whose rowIndex is at or past the current row count
\* changes no row, and every other entry of the batch, before and after it,
\* is applied as if the dropped entry were absent.
C20_OutOfRangeDropped ==
    VoiceHandled =>
        \A i \in DroppedPositions :
            /\ TableAfter(i) = TableBefore(i)
            /\ rows = ApplyAll(vOp.pre, vOp.result.action, BatchWithout(i))

\* a batch of three whose middle entry is out of range: the first entry was
\* merged and the last one appended
C20_Witness ==
    /\ VoiceHandled
    /\ Len(vOp.pre) = 1
    /\ Len(vOp.result.rowUpdates) = 3
    /\ DroppedPositions = {2}
    /\ vOp.result.rowUpdates[1].rowIndex = 0
    /\ vOp.result.rowUpdates[3].rowIndex = -1
    /\ Len(rows) = 2
    /\ rows[1] # vOp.pre[1]
    /\ rows[2] = vOp.result.rowUpdates[3].updates

(***************************************************************************)
(* Further properties of the pipeline editor.                              *)
(***************************************************************************)
\* positions of the pipeline the last handler met
PrePositions == 0..(Len(PreSteps) - 1)

\* C21: deleteStep and onDrop given an index (from or to) outside
\* [0, steps.length) leave the steps as they are and the list still renders;
\* on an empty pipeline they change nothing.
C21_OutOfRangeNoOp ==
    (/\ lastOp.op \in {"deleteStep", "onDrop"}
     /\ \/ lastOp.idx \notin PrePositions
        \/ lastOp.op = "onDrop" /\ lastOp.arg \notin PrePositions) =>
        /\ plan.steps = PreSteps
        /\ Renders

\* C22: when generateWorkflow fails the plan and the selection stay what they
\* were, the failure is reported and the loading flag is false again.
C22_FailureContained ==
    lastOp.op = "generateFailed" =>
        /\ plan = lastOp.pre
        /\ selectedIndices = lastOp.sel
        /\ lastOp.arg = AlertFailed
        /\ ~loading

\* a regeneration failed over a plan with steps, some of them selected
C22_Witness ==
    /\ lastOp.op = "generateFailed"
    /\ lastOp.pre # NoPlan
    /\ lastOp.sel # {}
    /\ plan # NoPlan
    /\ Len(plan.steps) >= 2
    /\ selectedIndices # {}

\* C23: every step of a pipeline returned by generateWorkflow has an id.
C23_GeneratedStepsHaveIds ==
    lastOp.op = "generated" =>
        \A k \in 1..Len(plan.steps) : plan.steps[k].id # MissingId

\* the step addNewStep makes for a pipeline whose steps are pre
IsDefaultStep(step, pre) ==
    /\ step.targetRowIndex = (IF pre = <<>> THEN 0 ELSE pre[Len(pre)].targetRowIndex)
    /\ step.targetColumnId = TableColumns[1]
    /\ step.expectedType = "text"

C29_LaterRequestWins ==
    lastOp.op = "generated" => lastOp.shown > lastOp.shownBefore

\* C30: after onDrop with valid from and to, the step that was at from is at
\* to, the other steps keep their relative order, and the steps are a
\* permutation of what they were.
C30_ReorderSemantics ==
    (/\ lastOp.op = "onDrop"
     /\ lastOp.idx \in PrePositions
     /\ lastOp.arg \in PrePositions) =>
        /\ Len(plan.steps) = Len(PreSteps)
        /\ At(plan.steps, lastOp.arg) = At(PreSteps, lastOp.idx)
        /\ RemoveAt(plan.steps, lastOp.arg) = RemoveAt(PreSteps, lastOp.idx)

\* the first step was dropped two places down
C30_Witness ==
    /\ lastOp.op = "onDrop"
    /\ lastOp.idx = 0
    /\ lastOp.arg = 2
    /\ Len(PreSteps) >= 4
    /\ At(plan.steps, 2) = At(PreSteps, 0)
    /\ At(plan.steps, 0) = At(PreSteps, 1)
    /\ At(plan.steps, 1) = At(PreSteps, 2)
    /\ At(plan.steps, 3) = At(PreSteps, 3)

\* C27: when a recognition cycle ends, the text onend classifies is the
\* transcript recognized during that cycle.
C27_OnEndHandlesHeardText ==
    sOp.op = "onend" => sOp.text = sOp.heard

(***************************************************************************)
(* Properties of the edits of the table.                                   *)
(***************************************************************************)
\* C25: after every edit of the table in memory a saveTable call has been
\* issued with the rows of the table that results from the edit.
C25_SavedAfterEveryEdit ==
    tOp.op \in {"manual", "resolved", "addRow"} =>
        /\ saved.written
        /\ saved.rows = rows

\* C28: a voice-command result is applied to the table as it is when the
\* result arrives: an edit made while the request was in flight is still in
\* the table afterwards.
C28_NoLostUpdate ==
    tOp.op = "resolved" =>
        rows = ApplyAll(tOp.pre, tOp.arg.action, tOp.arg.rowUpdates)

(***************************************************************************)
(* Properties of the CSV import.                                           *)
(***************************************************************************)
CsvParsed == csvTable # NoTable /\ csvTable # EmptyFile

\* the values of column idx in the data lines of the file
ColumnValues(idx) ==
    LET lines == NonBlank(SplitOn(csvContent, "LF"))
    IN  {ValueAt(ValuesOf(lines[r]), idx) : r \in 2..Len(lines)}

\* C24: parseCSV gives column k the id col_k, and the type number only if
\* every non-empty value of the column in the data lines is a canonical
\* number; a column with a non-empty value that is not one has type text.
C24_CsvTypeInference ==
    CsvParsed =>
        \A k \in 1..Len(csvTable.columns) :
            /\ csvTable.columns[k].id = <<"col", k - 1>>
            /\ csvTable.columns[k].type = "number" =>
                  \A v \in ColumnValues(k - 1) : v = <<>> \/ IsCanonicalNumber(v)
            /\ (\E v \in ColumnValues(k - 1) : v # <<>> /\ ~IsCanonicalNumber(v)) =>
                  csvTable.columns[k].type = "text"

(***************************************************************************)
(* Properties of the selection of the pipeline editor.                     *)
(***************************************************************************)
\* C31: after a drag-reorder (onDrop) and after an insert (addNewStep) on a
\* pipeline the multi-selection is empty.
C31_StructuralEditClearsSelection ==
    (lastOp.op \in {"onDrop", "addNewStep"} /\ lastOp.pre # NoPlan) =>
        selectedIndices = {}

\* C38: every selected index is a position of the pipeline, so the steps
\* that duplicateSelected and deleteSelected read are all there.
C38_SelectionValid ==
    /\ \A i \in selectedIndices : 0 <= i /\ i < NumSteps
    /\ plan # NoPlan =>
          \A i \in selectedIndices : At(plan.steps, i) \in Range(plan.steps)

\* a regeneration has resolved after a step had been selected, and replaced
\* the pipeline by a shorter one
C38_Witness ==
    /\ lastOp.op = "generated"
    /\ lastOp.sel # {}
    /\ \E i \in lastOp.sel : i >= NumSteps

(***************************************************************************)
(* Further properties of the guided session.                               *)
(***************************************************************************)
\* the text the last handler was given by the user: the transcript on screen
\* for Enter, the text of the recognition cycle for onend
GivenText == IF sOp.op = "onend" THEN sOp.heard ELSE sOp.text

\* C32: Enter with the transcript T on screen and a recognition cycle that
\* ends with the text T are classified alike and have the same effect: a stop
\* word ends the session, a skip word advances without a write, any other
\* non-empty text is written to the step at the cursor, which then advances;
\* the Skip button does what a skip word does.
C32_ButtonsAndVoiceAlike ==
    /\ (ResultHandled /\ sOp.mounted) =>
          /\ sOp.kind = ClassifyText(CleanText(GivenText), language)
          /\ sOp.kind = "stop" => (sOp.wrote = NoWrite /\ activeWorkflow = NoPlan)
          /\ sOp.kind = "skip" => (sOp.wrote = NoWrite /\ AdvancedByOne)
          /\ sOp.kind = "value" =>
                /\ sOp.wrote =
                      [row |-> StepAtCursor.targetRowIndex,
                       col |-> StepAtCursor.targetColumnId,
                       value |-> NormalizeValue(CleanText(GivenText),
                                                StepAtCursor.expectedType)]
                /\ AdvancedByOne
    /\ (sOp.op = "skip" /\ sOp.mounted) =>
          (sOp.wrote = NoWrite /\ AdvancedByOne)

\* C33: while a session has a plan, the cursor is a position of the plan:
\* 0 <= currentStepIndex < plan.steps.length.
C33_CursorInRange ==
    activeWorkflow # NoPlan =>
        (0 <= currentStepIndex /\ currentStepIndex < Len(activeWorkflow.steps))

\* C34: a handler that runs after the session was closed writes nothing to
\* the table and does not move the cursor.
C34_NothingAfterClose ==
    ~sOp.mounted =>
        /\ sOp.wrote = NoWrite
        /\ rows = sOp.rows
        /\ currentStepIndex = sOp.cur

\* C35: while the session is listening, the recognizer in recognitionRef is
\* the one that captures, so that the mic button pressed while listening stops
\* the capturing recognizer.
C35_RefIsCapturingRecognizer ==
    /\ (Mounted /\ isListening) => (capturing # NoRec /\ capturing.isRef)
    /\ (sOp.op = "micStop" /\ capturing # NoRec) => capturing.stopped

\* C36: after a guided write every position of rows holds a row, and a row
\* the write created holds the empty string in every other column of the table.
C36_RowsStayDense ==
    sOp.wrote # NoWrite =>
        /\ \A i \in 1..Len(rows) : rows[i] # Hole
        /\ RowAt(sOp.rows, sOp.wrote.row) = Hole =>
              \A c \in Range(TableColumns) \ {sOp.wrote.col} :
                  RowAt(rows, sOp.wrote.row)[c] = <<>>

C39_EditTargetsOneStep ==
    /\ lastOp.op = "startEditing" =>
          \A i \in Positions : IsEditing(i) <=> (i = lastOp.idx)
    /\ lastOp.op = "saveStepEdit" =>
          /\ Len(plan.steps) = Len(PreSteps)
          /\ \A i \in Positions :
                IF i = lastOp.idx
                THEN /\ At(plan.steps, i).id = At(PreSteps, i).id
                     /\ At(plan.steps, i).expectedType = At(PreSteps, i).expectedType
                ELSE At(plan.steps, i) = At(PreSteps, i)

(***************************************************************************)
(* Properties of the voice control.                                        *)
(***************************************************************************)
\* C37: a listening cycle that ends with a transcript starts one
\* parseVoiceCommand request for it: status is PROCESSING and the request is
\* in flight, whenever the timers of the previous cycle fire.
C37_EveryUtteranceProcessed ==
    (mOp.op = "onend" /\ mOp.text # <<>>) =>
        /\ status = "PROCESSING"
        /\ parsing.active
        /\ tOp.op = "process"
        /\ tOp.arg = mOp.text

====
